---------------------------- MODULE Spec2Model ----------------------------
(***************************************************************************)
(* A model of src/src/main.rs: the grammar compiler GrammarRust::new, the  *)
(* xorshift generator GrammarRust::seed / GrammarRust::rand, the stack     *)
(* machine GrammarRust::generate and the driver loop of main.              *)
(*                                                                         *)
(* Every variable is a function of a run r: one execution of main.  The    *)
(* specification Spec has the single run 1 and records its history;        *)
(* LiveSpec is the run from the seed 0 under weak fairness; PairSpec has   *)
(* the runs 1 and 2, which read the same test.json and draw the same seed. *)
(*                                                                         *)
(* A String is <<text, n>>: the text, n times (n is 1 but for one long     *)
(* terminal).  A byte vector is run-length encoded: a sequence of <<b, n>>,*)
(* the byte b n times, no two neighbouring runs of one byte, so that a     *)
(* terminal of half a MiB is one run.  A usize is the set of the positions *)
(* of its 1 bits, 0 being the least significant of the 64.                 *)
(***************************************************************************)
EXTENDS Integers, Sequences, FiniteSets, TLC

VARIABLES
    json,               \* the entries of test.json, in the order of the text
    entropy,            \* the i32 that rand::thread_rng() hands to main
    hist,               \* whether trace and outputs are recorded
    pc,                 \* pc[r]: where run r is
    grammar,            \* Grammar.0: rule name -> alternatives
    order,              \* the order in which grammar.0.iter() yields the names
    fragments,          \* GrammarRust.fragments, the arena
    name_to_fragment,   \* GrammarRust.name_to_fragment
    start,              \* GrammarRust.start: None or Some(id)
    seed,               \* GrammarRust.seed, the xorshift state
    idx,                \* how many entries the running for loop of new has consumed
    expressions,        \* new's local `expressions`
    options,            \* new's local `options`
    stack,              \* main's scratch stack
    buf,                \* main's output buffer
    trace,              \* history: the ids this generate call has popped
    outputs,            \* history: the buffers of the calls that returned
    seen                \* history: the set of buffers generate has returned

vars == <<json, entropy, hist, pc, grammar, order, fragments,
          name_to_fragment, start, seed, idx, expressions, options,
          stack, buf, trace, outputs, seen>>

-----------------------------------------------------------------------------
(* Bounds of the model. *)

\* Calls of generate a run makes while the history is recorded.
MaxCalls == 3

\* Fragments one call of generate pops while the history is recorded.
MaxTrace == 12

-----------------------------------------------------------------------------
(* Strings and byte vectors. *)

None == <<>>

Some(x) == <<x>>

Last(s) == s[Len(s)]

Front(s) == SubSeq(s, 1, Len(s) - 1)

RECURSIVE Reverse(_)
Reverse(s) == IF s = <<>> THEN <<>> ELSE Append(Reverse(Tail(s)), Head(s))

\* Concatenation of two run-length encoded sequences.
Cat(a, b) ==
    IF a = <<>> THEN b
    ELSE IF b = <<>> THEN a
    ELSE IF Last(a)[1] = Head(b)[1]
         THEN Front(a) \o <<<<Head(b)[1], Last(a)[2] + Head(b)[2]>>>> \o Tail(b)
         ELSE a \o b

\* Vec::len of a run-length encoded sequence.
RECURSIVE RunLen(_)
RunLen(a) == IF a = <<>> THEN 0 ELSE Head(a)[2] + RunLen(Tail(a))

\* The String `text`.
Str(text) == <<text, 1>>

\* The String of n times the character c.
Rep(c, n) == <<c, n>>

\* The UTF-8 encoding of the texts the grammars below use.
Utf8(text) ==
    CASE text = "<start>" -> <<60, 115, 116, 97, 114, 116, 62>>
      [] text = "<a>" -> <<60, 97, 62>>
      [] text = "<b>" -> <<60, 98, 62>>
      [] text = "<c>" -> <<60, 99, 62>>
      [] text = "a" -> <<97>>
      [] text = "b" -> <<98>>
      [] text = "q" -> <<113>>
      [] text = "x" -> <<120>>
      [] text = "y" -> <<121>>
      [] text = "z" -> <<122>>
      [] text = "yz" -> <<121, 122>>
      [] text = "e'" -> <<195, 169>>     \* U+00E9, two bytes

RECURSIVE ByteRuns(_)
ByteRuns(bs) ==
    IF bs = <<>> THEN <<>> ELSE Cat(<<<<Head(bs), 1>>>>, ByteRuns(Tail(bs)))

RECURSIVE RepBytes(_, _)
RepBytes(bs, n) ==
    IF Len(bs) = 1 THEN <<<<bs[1], n>>>>
    ELSE IF n = 0 THEN <<>>
    ELSE Cat(ByteRuns(bs), RepBytes(bs, n - 1))

\* str::as_bytes().to_vec(): the UTF-8 bytes of a String.
AsBytes(s) == RepBytes(Utf8(s[1]), s[2])

-----------------------------------------------------------------------------
(* 64-bit words. *)

Bits == 0 .. 63

Xor(a, b) == (a \ b) \cup (b \ a)

\* a << k and a >> k on a usize: the bits shifted out are lost.
Shl(a, k) == {j + k : j \in {i \in a : i + k <= 63}}

Shr(a, k) == {j - k : j \in {i \in a : i >= k}}

\* 2^(16 * k) % n, for k in 0 .. 3 and n * n within TLC's integers.
Pow65536Mod(k, n) ==
    LET p == 65536 % n
    IN  CASE k = 0 -> 1 % n
          [] k = 1 -> p
          [] k = 2 -> (p * p) % n
          [] k = 3 -> (((p * p) % n) * p) % n

\* 2^j % n for a bit position j.
Pow2Mod(j, n) == (((2 ^ (j % 16)) % n) * Pow65536Mod(j \div 16, n)) % n

RECURSIVE SumMod(_, _)
SumMod(a, n) ==
    IF a = {} THEN 0
    ELSE LET j == CHOOSE x \in a : TRUE
         IN  (Pow2Mod(j, n) + SumMod(a \ {j}, n)) % n

\* a % n for a usize a and 0 < n.
WordMod(a, n) == SumMod(a, n)

RECURSIVE NatBits(_, _)
NatBits(v, j) ==
    IF v = 0 THEN {}
    ELSE (IF v % 2 = 1 THEN {j} ELSE {}) \cup NatBits(v \div 2, j + 1)

\* `v as usize` for an i32 v: the sign is extended to 64 bits.
I32AsUsize(v) ==
    IF v >= 0 THEN NatBits(v, 0) ELSE {j : j \in Bits} \ NatBits(-v - 1, 0)

-----------------------------------------------------------------------------
(* The grammars test.json may hold, and the seeds thread_rng may draw. *)

START == Str("<start>")

RuleA == Str("<a>")

RuleB == Str("<b>")

RuleC == Str("<c>")

\* A terminal of half the ceiling: two of them fill the buffer to 1 MiB exactly.
HalfMiB == Rep("a", 524288)

\* {"<start>": [["<a>"], ["<b>"]], "<a>": [["x"]], "<b>": [["y"]]}
JsonChoice ==
    << <<START, << <<RuleA>>, <<RuleB>> >> >>,
       <<RuleA, << <<Str("x")>> >> >>,
       <<RuleB, << <<Str("y")>> >> >> >>

\* {"<start>": [["<a>", "<a>"]], "<a>": [["z"]]}
JsonTwice ==
    << <<START, << <<RuleA, RuleA>> >> >>,
       <<RuleA, << <<Str("z")>> >> >> >>

\* {"<start>": [["x", "<b>"], []], "<b>": [["yz", "<c>"], ["<start>", "e'"]]}
JsonMixed ==
    << <<START, << <<Str("x"), RuleB>>, <<>> >> >>,
       <<RuleB, << <<Str("yz"), RuleC>>, <<START, Str("e'")>> >> >> >>

\* {"<start>": [["<start>"]]}
JsonLoop == << <<START, << <<START>> >> >> >>

\* {"<start>": []}
JsonNoAlternative == << <<START, <<>> >> >>

\* {"<a>": [["x"]]}
JsonNoStart == << <<RuleA, << <<Str("x")>> >> >> >>

\* {"<start>": [["a"]], "<start>": [["b"]]}
JsonRepeated ==
    << <<START, << <<Str("a")>> >> >>,
       <<START, << <<Str("b")>> >> >> >>

\* {"<start>": [["aaa...a", "<start>"], ["q"]]}, the terminal of 524288 bytes
JsonHuge == << <<START, << <<HalfMiB, START>>, <<Str("q")>> >> >> >>

Jsons == {JsonChoice, JsonTwice, JsonMixed, JsonLoop, JsonNoAlternative,
          JsonNoStart, JsonRepeated, JsonHuge}

Entropies == {0, 1, -1, 6}

-----------------------------------------------------------------------------
(* The data model. *)

NonTerminal(children) ==
    [kind |-> "NonTerminal", children |-> children, value |-> <<>>]

Expression(children) ==
    [kind |-> "Expression", children |-> children, value |-> <<>>]

Terminal(value) ==
    [kind |-> "Terminal", children |-> <<>>, value |-> value]

\* map.insert(k, v) of a HashMap or BTreeMap: a present key is overwritten.
Insert(m, k, v) == [x \in (DOMAIN m) \cup {k} |-> IF x = k THEN v ELSE m[x]]

\* serde's Deserialize of the JSON object into Grammar(HashMap): the entries
\* are inserted in the order of the text, so the last of a repeated key stays.
RECURSIVE Deserialize(_)
Deserialize(entries) ==
    IF entries = <<>> THEN <<>>
    ELSE LET e == Last(entries)
         IN  Insert(Deserialize(Front(entries)), e[1], e[2])

\* The orders in which a HashMap with the keys `keys` may be iterated.
Orders(keys) ==
    {o \in [1 .. Cardinality(keys) -> keys] :
        \A i, j \in DOMAIN o : i # j => o[i] # o[j]}

\* allocate_fragment putting the fragment in front of the arena.
allocate_fragmentAtFront(frs, fragment) ==
    [id |-> 0, fragments |-> <<fragment>> \o frs]

\* GrammarRust::allocate_fragment: the id is the length before the push.
allocate_fragment(frs, fragment) ==
    [id |-> Len(frs), fragments |-> Append(frs, fragment)]

\* GrammarRust::lookup_fragment.
lookup_fragment(frs, id) == frs[id + 1]

\* rand returning the state it read, not the one it stored.
randReturnsOld(s) ==
    LET s1 == Xor(s, Shl(s, 13))
        s2 == Xor(s1, Shr(s1, 17))
        s3 == Xor(s2, Shl(s2, 43))
    IN  [state |-> s3, ret |-> s]

\* rand with s <<= 13 as its first step, not s ^= s << 13.
randShiftOnly(s) ==
    LET s1 == Shl(s, 13)
        s2 == Xor(s1, Shr(s1, 17))
        s3 == Xor(s2, Shl(s2, 43))
    IN  [state |-> s3, ret |-> s3]

\* GrammarRust::rand on the state s: the state it stores and the value it returns.
rand(s) ==
    LET s1 == Xor(s, Shl(s, 13))
        s2 == Xor(s1, Shr(s1, 17))
        s3 == Xor(s2, Shl(s2, 43))
    IN  [state |-> s3, ret |-> s3]

-----------------------------------------------------------------------------
(* The initial states. *)

InitRuns(runs) ==
    /\ pc = [r \in runs |-> "read"]
    /\ grammar = [r \in runs |-> <<>>]
    /\ order = [r \in runs |-> <<>>]
    /\ fragments = [r \in runs |-> <<>>]
    /\ name_to_fragment = [r \in runs |-> <<>>]
    /\ start = [r \in runs |-> None]
    /\ seed = [r \in runs |-> {}]
    /\ idx = [r \in runs |-> 0]
    /\ expressions = [r \in runs |-> <<>>]
    /\ options = [r \in runs |-> <<>>]
    /\ stack = [r \in runs |-> <<>>]
    /\ buf = [r \in runs |-> <<>>]
    /\ trace = [r \in runs |-> <<>>]
    /\ outputs = [r \in runs |-> <<>>]
    /\ seen = [r \in runs |-> {}]

Init ==
    /\ json \in Jsons
    /\ entropy \in Entropies
    /\ hist = TRUE
    /\ InitRuns({1})

-----------------------------------------------------------------------------
(* main, up to the loop, and GrammarRust::new. *)

\* main: test.json is read and deserialized; new starts from the default value.
Read(r) ==
    /\ pc[r] = "read"
    /\ grammar' = [grammar EXCEPT ![r] = Deserialize(json)]
    /\ \E o \in Orders(DOMAIN Deserialize(json)) :
           order' = [order EXCEPT ![r] = o]
    /\ pc' = [pc EXCEPT ![r] = "pass1"]
    /\ UNCHANGED <<json, entropy, hist, fragments, name_to_fragment, start,
                   seed, idx, expressions, options, stack, buf, trace,
                   outputs, seen>>

\* One turn of the first for loop of new: the placeholder of a rule.
Pass1(r) ==
    /\ pc[r] = "pass1"
    /\ idx[r] < Len(order[r])
    /\ LET non_term == order[r][idx[r] + 1]
           a == allocate_fragment(fragments[r], NonTerminal(<<>>))
       IN  IF non_term \in DOMAIN name_to_fragment[r]
           THEN /\ pc' = [pc EXCEPT ![r] = "panic_duplicate"]
                /\ UNCHANGED <<fragments, name_to_fragment, idx>>
           ELSE /\ fragments' = [fragments EXCEPT ![r] = a.fragments]
                /\ name_to_fragment' =
                       [name_to_fragment EXCEPT
                           ![r] = Insert(name_to_fragment[r], non_term, a.id)]
                /\ idx' = [idx EXCEPT ![r] = idx[r] + 1]
                /\ UNCHANGED pc
    /\ UNCHANGED <<json, entropy, hist, grammar, order, start, seed,
                   expressions, options, stack, buf, trace, outputs, seen>>

\* The first for loop ends and the second begins.
Pass1Done(r) ==
    /\ pc[r] = "pass1"
    /\ idx[r] = Len(order[r])
    /\ pc' = [pc EXCEPT ![r] = "pass2"]
    /\ idx' = [idx EXCEPT ![r] = 0]
    /\ UNCHANGED <<json, entropy, hist, grammar, order, fragments,
                   name_to_fragment, start, seed, expressions, options,
                   stack, buf, trace, outputs, seen>>

\* The alternatives of the rule the second for loop is at.
CurrentAlternatives(r) == grammar[r][order[r][idx[r] + 1]]

\* Pass2Symbol resolving a symbol only against the rules the second loop has
\* already compiled.
Pass2SymbolCompiledOnly(r) ==
    /\ pc[r] = "pass2"
    /\ idx[r] < Len(order[r])
    /\ Len(expressions[r]) < Len(CurrentAlternatives(r))
    /\ LET js_sub_fragment == CurrentAlternatives(r)[Len(expressions[r]) + 1]
       IN  /\ Len(options[r]) < Len(js_sub_fragment)
           /\ LET option == js_sub_fragment[Len(options[r]) + 1]
                  a == IF option \in {order[r][k] : k \in 1 .. idx[r]}
                       THEN allocate_fragment(fragments[r],
                                NonTerminal(<<name_to_fragment[r][option]>>))
                       ELSE allocate_fragment(fragments[r],
                                Terminal(AsBytes(option)))
              IN  /\ fragments' = [fragments EXCEPT ![r] = a.fragments]
                  /\ options' = [options EXCEPT ![r] = Append(options[r], a.id)]
    /\ UNCHANGED <<json, entropy, hist, pc, grammar, order, name_to_fragment,
                   start, seed, idx, expressions, stack, buf, trace, outputs,
                   seen>>

\* One turn of `for option in js_sub_fragment`: the fragment of a symbol.
Pass2Symbol(r) ==
    /\ pc[r] = "pass2"
    /\ idx[r] < Len(order[r])
    /\ Len(expressions[r]) < Len(CurrentAlternatives(r))
    /\ LET js_sub_fragment == CurrentAlternatives(r)[Len(expressions[r]) + 1]
       IN  /\ Len(options[r]) < Len(js_sub_fragment)
           /\ LET option == js_sub_fragment[Len(options[r]) + 1]
                  a == IF option \in DOMAIN name_to_fragment[r]
                       THEN allocate_fragment(fragments[r],
                                NonTerminal(<<name_to_fragment[r][option]>>))
                       ELSE allocate_fragment(fragments[r],
                                Terminal(AsBytes(option)))
              IN  /\ fragments' = [fragments EXCEPT ![r] = a.fragments]
                  /\ options' = [options EXCEPT ![r] = Append(options[r], a.id)]
    /\ UNCHANGED <<json, entropy, hist, pc, grammar, order, name_to_fragment,
                   start, seed, idx, expressions, stack, buf, trace, outputs,
                   seen>>

\* Pass2Expression using the single symbol of an alternative as it is, without
\* an Expression around it.
Pass2ExpressionUnwrapped(r) ==
    /\ pc[r] = "pass2"
    /\ idx[r] < Len(order[r])
    /\ Len(expressions[r]) < Len(CurrentAlternatives(r))
    /\ Len(options[r]) = Len(CurrentAlternatives(r)[Len(expressions[r]) + 1])
    /\ IF Len(options[r]) = 1
       THEN /\ expressions' =
                   [expressions EXCEPT
                       ![r] = Append(expressions[r], options[r][1])]
            /\ UNCHANGED fragments
       ELSE LET a == allocate_fragment(fragments[r], Expression(options[r]))
            IN  /\ fragments' = [fragments EXCEPT ![r] = a.fragments]
                /\ expressions' =
                       [expressions EXCEPT ![r] = Append(expressions[r], a.id)]
    /\ options' = [options EXCEPT ![r] = <<>>]
    /\ UNCHANGED <<json, entropy, hist, pc, grammar, order, name_to_fragment,
                   start, seed, idx, stack, buf, trace, outputs, seen>>

\* The end of one turn of `for js_sub_fragment in fragments`: the Expression.
Pass2Expression(r) ==
    /\ pc[r] = "pass2"
    /\ idx[r] < Len(order[r])
    /\ Len(expressions[r]) < Len(CurrentAlternatives(r))
    /\ Len(options[r]) = Len(CurrentAlternatives(r)[Len(expressions[r]) + 1])
    /\ LET a == allocate_fragment(fragments[r], Expression(options[r]))
       IN  /\ fragments' = [fragments EXCEPT ![r] = a.fragments]
           /\ expressions' =
                  [expressions EXCEPT ![r] = Append(expressions[r], a.id)]
    /\ options' = [options EXCEPT ![r] = <<>>]
    /\ UNCHANGED <<json, entropy, hist, pc, grammar, order, name_to_fragment,
                   start, seed, idx, stack, buf, trace, outputs, seen>>

\* The end of one turn of the second for loop: the placeholder is overwritten.
Pass2Overwrite(r) ==
    /\ pc[r] = "pass2"
    /\ idx[r] < Len(order[r])
    /\ Len(expressions[r]) = Len(CurrentAlternatives(r))
    /\ LET fragment_id == name_to_fragment[r][order[r][idx[r] + 1]]
       IN  fragments' = [fragments EXCEPT
                            ![r][fragment_id + 1] = NonTerminal(expressions[r])]
    /\ expressions' = [expressions EXCEPT ![r] = <<>>]
    /\ idx' = [idx EXCEPT ![r] = idx[r] + 1]
    /\ UNCHANGED <<json, entropy, hist, pc, grammar, order, name_to_fragment,
                   start, seed, options, stack, buf, trace, outputs, seen>>

\* The second for loop ends.
Pass2Done(r) ==
    /\ pc[r] = "pass2"
    /\ idx[r] = Len(order[r])
    /\ pc' = [pc EXCEPT ![r] = "resolve"]
    /\ UNCHANGED <<json, entropy, hist, grammar, order, fragments,
                   name_to_fragment, start, seed, idx, expressions, options,
                   stack, buf, trace, outputs, seen>>

\* ResolveStart with a lookup that yields None for a missing key.
ResolveStartLenient(r) ==
    /\ pc[r] = "resolve"
    /\ start' = [start EXCEPT ![r] =
                    IF START \in DOMAIN name_to_fragment[r]
                    THEN Some(name_to_fragment[r][START]) ELSE None]
    /\ pc' = [pc EXCEPT ![r] = "seed"]
    /\ UNCHANGED <<json, entropy, hist, grammar, order, fragments,
                   name_to_fragment, seed, idx, expressions, options, stack,
                   buf, trace, outputs, seen>>

\* ret.start = Some(ret.name_to_fragment["<start>"]): the index panics on a
\* missing key; otherwise new returns.
ResolveStart(r) ==
    /\ pc[r] = "resolve"
    /\ IF START \in DOMAIN name_to_fragment[r]
       THEN /\ start' = [start EXCEPT ![r] = Some(name_to_fragment[r][START])]
            /\ pc' = [pc EXCEPT ![r] = "seed"]
       ELSE /\ pc' = [pc EXCEPT ![r] = "panic_start"]
            /\ UNCHANGED start
    /\ UNCHANGED <<json, entropy, hist, grammar, order, fragments,
                   name_to_fragment, seed, idx, expressions, options, stack,
                   buf, trace, outputs, seen>>

\* gram.seed(rng.gen::<i32>() as usize), and the empty buf and stack of main.
SeedRng(r) ==
    /\ pc[r] = "seed"
    /\ seed' = [seed EXCEPT ![r] = I32AsUsize(entropy)]
    /\ pc' = [pc EXCEPT ![r] = "loop"]
    /\ UNCHANGED <<json, entropy, hist, grammar, order, fragments,
                   name_to_fragment, start, idx, expressions, options, stack,
                   buf, trace, outputs, seen>>

-----------------------------------------------------------------------------
(* The loop of main and GrammarRust::generate. *)

\* The size ceiling of generate.
Ceiling == 1048576

\* buf.clear() of main's loop, before the call of generate.
MainClear(r) ==
    /\ pc[r] = "loop"
    /\ hist => Len(outputs[r]) < MaxCalls
    /\ buf' = [buf EXCEPT ![r] = <<>>]
    /\ pc' = [pc EXCEPT ![r] = "call"]
    /\ UNCHANGED <<json, entropy, hist, grammar, order, fragments,
                   name_to_fragment, start, seed, idx, expressions, options,
                   stack, trace, outputs, seen>>

\* GenerateEnter without stack.clear().
GenerateEnterNoClear(r) ==
    /\ pc[r] = "call"
    /\ IF start[r] = None
       THEN /\ pc' = [pc EXCEPT ![r] = "panic_unwrap"]
            /\ UNCHANGED stack
       ELSE /\ pc' = [pc EXCEPT ![r] = "while"]
            /\ stack' = [stack EXCEPT ![r] = Append(stack[r], start[r][1])]
    /\ trace' = [trace EXCEPT ![r] = <<>>]
    /\ UNCHANGED <<json, entropy, hist, grammar, order, fragments,
                   name_to_fragment, start, seed, idx, expressions, options,
                   buf, outputs, seen>>

\* generate up to its while loop: start.unwrap(), stack.clear(), stack.push(start).
GenerateEnter(r) ==
    /\ pc[r] = "call"
    /\ IF start[r] = None
       THEN /\ pc' = [pc EXCEPT ![r] = "panic_unwrap"]
            /\ UNCHANGED stack
       ELSE /\ pc' = [pc EXCEPT ![r] = "while"]
            /\ stack' = [stack EXCEPT ![r] = <<start[r][1]>>]
    /\ trace' = [trace EXCEPT ![r] = <<>>]
    /\ UNCHANGED <<json, entropy, hist, grammar, order, fragments,
                   name_to_fragment, start, seed, idx, expressions, options,
                   buf, outputs, seen>>

\* The fragment the next turn of the while loop pops.
Cur(r) == Last(stack[r])

\* Whether the while loop of run r takes another turn, on a fragment of `kind`.
Turn(r, kind) ==
    /\ pc[r] = "while"
    /\ stack[r] # <<>>
    /\ hist => Len(trace[r]) < MaxTrace
    /\ lookup_fragment(fragments[r], Cur(r)).kind = kind

\* The history of a turn: the popped id.
Popped(r) ==
    trace' = [trace EXCEPT ![r] = IF hist THEN Append(trace[r], Cur(r))
                                          ELSE trace[r]]

\* StepNonTerminal choosing the option by rand::thread_rng(), not by self.rand().
StepNonTerminalThreadRng(r) ==
    /\ Turn(r, "NonTerminal")
    /\ LET opts == lookup_fragment(fragments[r], Cur(r)).children
       IN  /\ opts # <<>>
           /\ \E i \in DOMAIN opts :
                  stack' = [stack EXCEPT ![r] = Append(Front(stack[r]), opts[i])]
    /\ Popped(r)
    /\ UNCHANGED <<json, entropy, hist, pc, grammar, order, fragments,
                   name_to_fragment, start, seed, idx, expressions, options,
                   buf, outputs, seen>>

\* StepNonTerminal pushing all the options, as if on an Expression.
StepNonTerminalPushesAll(r) ==
    /\ Turn(r, "NonTerminal")
    /\ LET opts == lookup_fragment(fragments[r], Cur(r)).children
       IN  stack' = [stack EXCEPT ![r] = Front(stack[r]) \o Reverse(opts)]
    /\ seed' = [seed EXCEPT ![r] = rand(seed[r]).state]
    /\ Popped(r)
    /\ UNCHANGED <<json, entropy, hist, pc, grammar, order, fragments,
                   name_to_fragment, start, idx, expressions, options, buf,
                   outputs, seen>>

\* StepNonTerminal choosing the option by the drawn value and the popped id.
StepNonTerminalById(r) ==
    /\ Turn(r, "NonTerminal")
    /\ LET opts == lookup_fragment(fragments[r], Cur(r)).children
           rnd == rand(seed[r])
       IN  /\ seed' = [seed EXCEPT ![r] = rnd.state]
           /\ IF Len(opts) = 0
              THEN /\ pc' = [pc EXCEPT ![r] = "panic_rem_zero"]
                   /\ stack' = [stack EXCEPT ![r] = Front(stack[r])]
              ELSE /\ stack' = [stack EXCEPT ![r] =
                          Append(Front(stack[r]),
                                 opts[((WordMod(rnd.ret, Len(opts)) + Cur(r))
                                          % Len(opts)) + 1])]
                   /\ UNCHANGED pc
    /\ Popped(r)
    /\ UNCHANGED <<json, entropy, hist, grammar, order, fragments,
                   name_to_fragment, start, idx, expressions, options, buf,
                   outputs, seen>>

\* A turn on a NonTerminal: options[self.rand() % options.len()] is pushed; the
\* remainder panics when there are no options, after rand has run.
StepNonTerminal(r) ==
    /\ Turn(r, "NonTerminal")
    /\ LET opts == lookup_fragment(fragments[r], Cur(r)).children
           rnd == rand(seed[r])
       IN  /\ seed' = [seed EXCEPT ![r] = rnd.state]
           /\ IF Len(opts) = 0
              THEN /\ pc' = [pc EXCEPT ![r] = "panic_rem_zero"]
                   /\ stack' = [stack EXCEPT ![r] = Front(stack[r])]
              ELSE /\ stack' = [stack EXCEPT ![r] =
                          Append(Front(stack[r]),
                                 opts[WordMod(rnd.ret, Len(opts)) + 1])]
                   /\ UNCHANGED pc
    /\ Popped(r)
    /\ UNCHANGED <<json, entropy, hist, grammar, order, fragments,
                   name_to_fragment, start, idx, expressions, options, buf,
                   outputs, seen>>

\* StepExpression pushing the children first to last.
StepExpressionForward(r) ==
    /\ Turn(r, "Expression")
    /\ LET expr == lookup_fragment(fragments[r], Cur(r)).children
       IN  stack' = [stack EXCEPT ![r] = Front(stack[r]) \o expr]
    /\ Popped(r)
    /\ UNCHANGED <<json, entropy, hist, pc, grammar, order, fragments,
                   name_to_fragment, start, seed, idx, expressions, options,
                   buf, outputs, seen>>

\* A turn on an Expression: expr.iter().rev().for_each(|x| stack.push(*x)).
StepExpression(r) ==
    /\ Turn(r, "Expression")
    /\ LET expr == lookup_fragment(fragments[r], Cur(r)).children
       IN  stack' = [stack EXCEPT ![r] = Front(stack[r]) \o Reverse(expr)]
    /\ Popped(r)
    /\ UNCHANGED <<json, entropy, hist, pc, grammar, order, fragments,
                   name_to_fragment, start, seed, idx, expressions, options,
                   buf, outputs, seen>>

\* StepTerminal without the check of the ceiling.
StepTerminalNoCeiling(r) ==
    /\ Turn(r, "Terminal")
    /\ buf' = [buf EXCEPT ![r] =
                  Cat(buf[r], lookup_fragment(fragments[r], Cur(r)).value)]
    /\ stack' = [stack EXCEPT ![r] = Front(stack[r])]
    /\ Popped(r)
    /\ UNCHANGED <<json, entropy, hist, pc, grammar, order, fragments,
                   name_to_fragment, start, seed, idx, expressions, options,
                   outputs, seen>>

\* StepTerminal storing the bytes of the terminal over the buffer.
StepTerminalOverwrites(r) ==
    /\ Turn(r, "Terminal")
    /\ LET value == lookup_fragment(fragments[r], Cur(r)).value
       IN  /\ buf' = [buf EXCEPT ![r] = value]
           /\ pc' = [pc EXCEPT ![r] = IF RunLen(value) > Ceiling
                                      THEN "returned" ELSE "while"]
    /\ stack' = [stack EXCEPT ![r] = Front(stack[r])]
    /\ Popped(r)
    /\ UNCHANGED <<json, entropy, hist, grammar, order, fragments,
                   name_to_fragment, start, seed, idx, expressions, options,
                   outputs, seen>>

\* StepTerminal appending only to an empty buffer.
StepTerminalOnlyFirst(r) ==
    /\ Turn(r, "Terminal")
    /\ LET value == lookup_fragment(fragments[r], Cur(r)).value
           grown == IF buf[r] = <<>> THEN value ELSE buf[r]
       IN  /\ buf' = [buf EXCEPT ![r] = grown]
           /\ pc' = [pc EXCEPT ![r] = IF RunLen(grown) > Ceiling
                                      THEN "returned" ELSE "while"]
    /\ stack' = [stack EXCEPT ![r] = Front(stack[r])]
    /\ Popped(r)
    /\ UNCHANGED <<json, entropy, hist, grammar, order, fragments,
                   name_to_fragment, start, seed, idx, expressions, options,
                   outputs, seen>>

\* StepTerminal leaving the loop when the buffer has reached the ceiling.
StepTerminalAtCeiling(r) ==
    /\ Turn(r, "Terminal")
    /\ LET value == lookup_fragment(fragments[r], Cur(r)).value
           grown == Cat(buf[r], value)
       IN  /\ buf' = [buf EXCEPT ![r] = grown]
           /\ pc' = [pc EXCEPT ![r] = IF RunLen(grown) >= Ceiling
                                      THEN "returned" ELSE "while"]
    /\ stack' = [stack EXCEPT ![r] = Front(stack[r])]
    /\ Popped(r)
    /\ UNCHANGED <<json, entropy, hist, grammar, order, fragments,
                   name_to_fragment, start, seed, idx, expressions, options,
                   outputs, seen>>

\* A turn on a Terminal: the bytes are appended; past the ceiling the loop is
\* left by break, and generate returns.
StepTerminal(r) ==
    /\ Turn(r, "Terminal")
    /\ LET value == lookup_fragment(fragments[r], Cur(r)).value
           grown == Cat(buf[r], value)
       IN  /\ buf' = [buf EXCEPT ![r] = grown]
           /\ pc' = [pc EXCEPT ![r] = IF RunLen(grown) > Ceiling
                                      THEN "returned" ELSE "while"]
    /\ stack' = [stack EXCEPT ![r] = Front(stack[r])]
    /\ Popped(r)
    /\ UNCHANGED <<json, entropy, hist, grammar, order, fragments,
                   name_to_fragment, start, seed, idx, expressions, options,
                   outputs, seen>>

\* The while loop ends on the empty stack, and generate returns.
GenerateReturn(r) ==
    /\ pc[r] = "while"
    /\ stack[r] = <<>>
    /\ pc' = [pc EXCEPT ![r] = "returned"]
    /\ UNCHANGED <<json, entropy, hist, grammar, order, fragments,
                   name_to_fragment, start, seed, idx, expressions, options,
                   stack, buf, trace, outputs, seen>>

\* main after the call: generated += buf.len(), and the next turn of the loop.
MainAccount(r) ==
    /\ pc[r] = "returned"
    /\ outputs' = [outputs EXCEPT ![r] = IF hist THEN Append(outputs[r], buf[r])
                                                ELSE outputs[r]]
    /\ seen' = [seen EXCEPT ![r] = seen[r] \cup {buf[r]}]
    /\ pc' = [pc EXCEPT ![r] = "loop"]
    /\ UNCHANGED <<json, entropy, hist, grammar, order, fragments,
                   name_to_fragment, start, seed, idx, expressions, options,
                   stack, buf, trace>>

-----------------------------------------------------------------------------
(* The specifications. *)

Next ==
    \/ \E r \in DOMAIN pc : Read(r)
    \/ \E r \in DOMAIN pc : Pass1(r)
    \/ \E r \in DOMAIN pc : Pass1Done(r)
    \/ \E r \in DOMAIN pc : Pass2Symbol(r)
    \/ \E r \in DOMAIN pc : Pass2Expression(r)
    \/ \E r \in DOMAIN pc : Pass2Overwrite(r)
    \/ \E r \in DOMAIN pc : Pass2Done(r)
    \/ \E r \in DOMAIN pc : ResolveStart(r)
    \/ \E r \in DOMAIN pc : SeedRng(r)
    \/ \E r \in DOMAIN pc : MainClear(r)
    \/ \E r \in DOMAIN pc : GenerateEnter(r)
    \/ \E r \in DOMAIN pc : StepNonTerminal(r)
    \/ \E r \in DOMAIN pc : StepExpression(r)
    \/ \E r \in DOMAIN pc : StepTerminal(r)
    \/ \E r \in DOMAIN pc : GenerateReturn(r)
    \/ \E r \in DOMAIN pc : MainAccount(r)

\* One run of main, with its history.
Spec == Init /\ [][Next]_vars

\* One run of main from the seed 0, a fixed point of rand (rng.gen::<i32>() may
\* return 0), without the history and so without its bounds: main loops for
\* ever.  The process is the only thread and is never suspended for good, so
\* a step that can be taken is taken.
InitLive ==
    /\ json \in Jsons
    /\ entropy = 0
    /\ hist = FALSE
    /\ InitRuns({1})

LiveSpec == InitLive /\ [][Next]_vars /\ WF_vars(Next)

\* Two runs of main on the same test.json and with the same seed, each with
\* its own HashMap, grammar, stack and buffer, their steps interleaved.
InitPair ==
    /\ json \in {JsonChoice, JsonMixed}
    /\ entropy \in {-1, 6}
    /\ hist = TRUE
    /\ InitRuns({1, 2})

PairSpec == InitPair /\ [][Next]_vars

-----------------------------------------------------------------------------
(* What the claims speak of. *)

\* The places of a run inside a call of generate, and after new has returned.
InGenerate == {"while", "returned", "panic_rem_zero"}

AfterNew == {"seed", "loop", "call", "panic_unwrap"} \cup InGenerate

\* The lengths of the terminals of an arena.
TerminalLens(frs) ==
    {RunLen(frs[i].value) : i \in {k \in DOMAIN frs : frs[k].kind = "Terminal"}}

\* Whether a JSON text names a rule twice.
HasRepeatedName(entries) ==
    \E i, j \in DOMAIN entries : i # j /\ entries[i][1] = entries[j][1]

(* Reference definitions, written from the statements the model is checked *)
(* against and not from the code: the bytes of a trace, the derivation by  *)
(* recursive descent, and the xorshift step bit by bit.                    *)

\* The bytes of the Terminal fragments among the ids tr, in the order of tr.
RECURSIVE TerminalBytes(_, _)
TerminalBytes(frs, tr) ==
    IF tr = <<>> THEN <<>>
    ELSE Cat(IF frs[Head(tr) + 1].kind = "Terminal"
             THEN frs[Head(tr) + 1].value ELSE <<>>,
             TerminalBytes(frs, Tail(tr)))

\* The derivation by recursive descent: Walk follows the ids tr through the
\* expansion of fragment id, a NonTerminal expanding to the one child that tr
\* names next and an Expression to all its children from left to right.  It
\* yields whether tr fits (ok), the bytes of the expansion (out), the ids left
\* over (rest) and whether tr ended before the expansion was complete (cut).
RECURSIVE Walk(_, _, _), WalkAll(_, _, _)
Walk(frs, id, tr) ==
    IF tr = <<>>
    THEN [ok |-> TRUE, out |-> <<>>, rest |-> <<>>, cut |-> TRUE]
    ELSE IF Head(tr) # id \/ id >= Len(frs)
    THEN [ok |-> FALSE, out |-> <<>>, rest |-> tr, cut |-> FALSE]
    ELSE LET f == frs[id + 1]
         IN  CASE f.kind = "Terminal" ->
                    [ok |-> TRUE, out |-> f.value, rest |-> Tail(tr),
                     cut |-> FALSE]
               [] f.kind = "Expression" -> WalkAll(frs, f.children, Tail(tr))
               [] f.kind = "NonTerminal" ->
                    IF Tail(tr) = <<>>
                    THEN [ok |-> TRUE, out |-> <<>>, rest |-> <<>>,
                          cut |-> TRUE]
                    ELSE IF \E i \in DOMAIN f.children :
                                f.children[i] = Head(Tail(tr))
                    THEN Walk(frs, Head(Tail(tr)), Tail(tr))
                    ELSE [ok |-> FALSE, out |-> <<>>, rest |-> Tail(tr),
                          cut |-> FALSE]

WalkAll(frs, ids, tr) ==
    IF ids = <<>>
    THEN [ok |-> TRUE, out |-> <<>>, rest |-> tr, cut |-> FALSE]
    ELSE LET h == Walk(frs, Head(ids), tr)
         IN  IF ~h.ok \/ h.cut THEN h
             ELSE LET t == WalkAll(frs, Tail(ids), h.rest)
                  IN  [ok |-> t.ok, out |-> Cat(h.out, t.out),
                       rest |-> t.rest, cut |-> t.cut]

\* The bit j of the state after one xorshift step from the state s, bit by bit:
\* s1 = s ^ (s << 13), s2 = s1 ^ (s1 >> 17), s3 = s2 ^ (s2 << 43).
XorshiftBit1(s, j) == (j \in s) # (j >= 13 /\ (j - 13) \in s)

XorshiftBit2(s, j) ==
    XorshiftBit1(s, j) # (j + 17 <= 63 /\ XorshiftBit1(s, j + 17))

XorshiftBit3(s, j) == XorshiftBit2(s, j) # (j >= 43 /\ XorshiftBit2(s, j - 43))

Xorshift(s) == {j \in Bits : XorshiftBit3(s, j)}

-----------------------------------------------------------------------------
\* C1: the buffer generate returns is at most the ceiling of 1048576 bytes plus
\* the length of one terminal: while the loop runs the buffer is within the
\* ceiling, and a buffer returned past it was carried there by the terminal
\* popped last.
C1_BoundedOutput ==
    \A r \in DOMAIN pc :
        /\ pc[r] = "while" => RunLen(buf[r]) <= Ceiling
        /\ pc[r] = "returned" =>
              /\ \/ RunLen(buf[r]) <= Ceiling
                 \/ \E n \in TerminalLens(fragments[r]) :
                        RunLen(buf[r]) <= Ceiling + n
              /\ RunLen(buf[r]) > Ceiling =>
                    LET f == lookup_fragment(fragments[r], Last(trace[r]))
                    IN  /\ f.kind = "Terminal"
                        /\ RunLen(buf[r]) - RunLen(f.value) <= Ceiling

\* A call has returned a buffer past the ceiling.
C1_Witness ==
    \E r \in DOMAIN pc : pc[r] = "returned" /\ RunLen(buf[r]) > Ceiling

\* C3: generation has no error outcome on a grammar new accepted: the id the
\* loop pops next indexes the arena, a NonTerminal it pops has a child, and the
\* remainder never panics.
C3_NoGenerationError ==
    \A r \in DOMAIN pc :
        /\ pc[r] # "panic_rem_zero"
        /\ (pc[r] = "while" /\ stack[r] # <<>>) =>
              /\ Cur(r) < Len(fragments[r])
              /\ LET f == lookup_fragment(fragments[r], Cur(r))
                 IN  f.kind = "NonTerminal" => f.children # <<>>

\* C7: a grammar text that repeats a rule name does not get past the first
\* pass of new.
C7_DuplicateRejected ==
    \A r \in DOMAIN pc :
        HasRepeatedName(json) => pc[r] \in {"read", "pass1", "panic_duplicate"}

\* C8: new returns only with start set to the name table's entry of "<start>",
\* a grammar without that rule ends new in a panic, and generate never finds
\* start unset.
C8_MissingStart ==
    \A r \in DOMAIN pc :
        /\ pc[r] \in AfterNew =>
              /\ START \in DOMAIN grammar[r]
              /\ start[r] = Some(name_to_fragment[r][START])
        /\ (pc[r] # "read" /\ START \notin DOMAIN grammar[r]) =>
              /\ pc[r] \in {"pass1", "pass2", "resolve", "panic_start"}
              /\ start[r] = None
        /\ pc[r] # "panic_unwrap"

\* new has panicked on a grammar without "<start>".
C8_Witness ==
    \E r \in DOMAIN pc :
        /\ pc[r] = "panic_start"
        /\ START \notin DOMAIN grammar[r]
        /\ fragments[r] # <<>>

-----------------------------------------------------------------------------
\* C2: every call of generate halts: a run inside the while loop leaves it.
C2_GenerateHalts == [](pc[1] = "while" => <>(pc[1] # "while"))

\* The outputs "x" and "y" of JsonChoice.
OutX == AsBytes(Str("x"))

OutY == AsBytes(Str("y"))

\* C9: on JsonChoice every call outputs exactly "x" or exactly "y", and over
\* the calls of main's loop both outputs appear.
C9_BothAppear ==
    (json = JsonChoice) =>
        /\ [](seen[1] \subseteq {OutX, OutY})
        /\ <>(OutX \in seen[1] /\ OutY \in seen[1])

-----------------------------------------------------------------------------
\* C5: the buffer of a call is the bytes of the Terminal fragments it popped,
\* in order, and the ids it popped are a derivation from the start fragment:
\* one child of every NonTerminal, all children of every Expression in order.
\* A call that returns on the empty stack has completed the derivation.
C5_StructuralValidity ==
    \A r \in DOMAIN pc :
        pc[r] \in InGenerate =>
            LET w == Walk(fragments[r], start[r][1], trace[r])
            IN  /\ w.ok
                /\ w.rest = <<>>
                /\ buf[r] = TerminalBytes(fragments[r], trace[r])
                /\ (pc[r] = "returned" /\ stack[r] = <<>>) => ~w.cut

\* A call has returned a derivation that chose among alternatives and
\* concatenated several terminals.
C5_Witness ==
    \E r \in DOMAIN pc :
        /\ pc[r] = "returned"
        /\ stack[r] = <<>>
        /\ json = JsonMixed
        /\ RunLen(buf[r]) >= 3

\* C6: an Expression's children are pushed in reverse, the first on top, so
\* the bytes are those of the children's expansions from left to right; every
\* output of JsonTwice is "zz".
C6_OutputOrdering ==
    \A r \in DOMAIN pc :
        /\ (pc[r] = "while" /\ trace[r] # <<>>) =>
              LET f == lookup_fragment(fragments[r], Last(trace[r]))
                  n == Len(f.children)
              IN  f.kind = "Expression" =>
                     /\ Len(stack[r]) >= n
                     /\ \A i \in 1 .. n :
                            stack[r][Len(stack[r]) - i + 1] = f.children[i]
        /\ pc[r] \in InGenerate =>
              buf[r] = Walk(fragments[r], start[r][1], trace[r]).out
        /\ json = JsonTwice =>
              \A k \in DOMAIN outputs[r] : outputs[r][k] = AsBytes(Rep("z", 2))

\* JsonTwice has returned "zz", and an Expression of two children is popped.
C6_Witness ==
    \E r \in DOMAIN pc :
        /\ json = JsonTwice
        /\ outputs[r] # <<>>
        /\ pc[r] = "while"
        /\ trace[r] # <<>>
        /\ lookup_fragment(fragments[r], Last(trace[r])).kind = "Expression"
        /\ Len(lookup_fragment(fragments[r], Last(trace[r])).children) = 2

\* C10: a step that changes the xorshift state is seed, which stores its
\* argument and touches nothing else of the grammar, or rand, which stores
\* s ^= s << 13; s ^= s >> 17; s ^= s << 43 on 64 bits; the value rand returns,
\* which selects the child pushed, is the state it stored.
C10_Xorshift ==
    [][\A r \in DOMAIN pc :
          /\ (pc[r] = "seed" /\ pc'[r] # "seed") =>
                /\ seed'[r] = I32AsUsize(entropy)
                /\ fragments' = fragments /\ start' = start
                /\ name_to_fragment' = name_to_fragment
                /\ stack' = stack /\ buf' = buf
          /\ (Turn(r, "NonTerminal") /\ trace'[r] # trace[r]) =>
                /\ seed'[r] = Xorshift(seed[r])
                /\ LET opts == lookup_fragment(fragments[r], Cur(r)).children
                   IN  opts # <<>> =>
                          Last(stack'[r]) =
                              opts[WordMod(seed'[r], Len(opts)) + 1]
          /\ ~(pc[r] = "seed" \/ Turn(r, "NonTerminal")) => seed'[r] = seed[r]
      ]_vars

\* rand has run twice from the seed 6 and chosen among two alternatives.
C10_Witness ==
    \E r \in DOMAIN pc :
        /\ entropy = 6
        /\ seed[r] = Xorshift(Xorshift(I32AsUsize(6)))
        /\ seed[r] # I32AsUsize(6)
        /\ Len(trace[r]) >= 3

-----------------------------------------------------------------------------
\* C4: two runs with the same compiled grammar and the same seed produce the
\* same buffers call by call, and at the same point of the same call they have
\* the same xorshift state, stack and buffer.
C4_Determinism ==
    (/\ pc[1] \in AfterNew /\ pc[2] \in AfterNew
     /\ fragments[1] = fragments[2] /\ start[1] = start[2]) =>
        /\ \A k \in (DOMAIN outputs[1]) \cap (DOMAIN outputs[2]) :
               outputs[1][k] = outputs[2][k]
        /\ (/\ pc[1] = pc[2] /\ pc[1] # "seed"
            /\ Len(outputs[1]) = Len(outputs[2])
            /\ Len(trace[1]) = Len(trace[2])) =>
               /\ seed[1] = seed[2]
               /\ pc[1] \in InGenerate =>
                      (stack[1] = stack[2] /\ buf[1] = buf[2])

\* Both runs have made the same three calls, whose outputs are not all the same.
C4_Witness ==
    /\ fragments[1] = fragments[2]
    /\ pc[1] = "loop" /\ pc[2] = "loop"
    /\ Len(outputs[1]) = 3 /\ Len(outputs[2]) = 3
    /\ outputs[1][1] # outputs[1][3]
    /\ seed[1] = seed[2]

-----------------------------------------------------------------------------
\* C11: once new has returned, the fragment the name table gives for a rule is
\* a NonTerminal with one child per alternative, in the listed order; the i-th
\* child is an Expression, also for an alternative of one symbol, with one
\* child per symbol of the i-th alternative, in order: a Terminal of the
\* symbol's bytes or a NonTerminal around the id of the rule the symbol names.
C11_CompiledRuleShape ==
    \A r \in DOMAIN pc :
        pc[r] \in AfterNew =>
            \A name \in DOMAIN grammar[r] :
                LET alts == grammar[r][name]
                    f == lookup_fragment(fragments[r], name_to_fragment[r][name])
                IN  /\ f.kind = "NonTerminal"
                    /\ Len(f.children) = Len(alts)
                    /\ \A i \in DOMAIN alts :
                           LET e == lookup_fragment(fragments[r], f.children[i])
                           IN  /\ e.kind = "Expression"
                               /\ Len(e.children) = Len(alts[i])
                               /\ \A j \in DOMAIN alts[i] :
                                      LET c == lookup_fragment(fragments[r],
                                                               e.children[j])
                                      IN  \/ c = Terminal(AsBytes(alts[i][j]))
                                          \/ /\ alts[i][j] \in DOMAIN grammar[r]
                                             /\ c = NonTerminal(
                                                  <<name_to_fragment[r][alts[i][j]]>>)

\* new has returned the grammar of JsonMixed: two rules of two alternatives,
\* one of them empty, and JsonChoice with its alternatives of one symbol.
C11_Witness ==
    \E r \in DOMAIN pc :
        /\ pc[r] = "loop"
        /\ json \in {JsonMixed, JsonChoice}
        /\ Len(lookup_fragment(fragments[r],
                               name_to_fragment[r][START]).children) = 2
        /\ Len(fragments[r]) >= 8

-----------------------------------------------------------------------------
\* C12: in the second pass every rule of the grammar is in the name table, in
\* whatever order the rules are iterated; the step that compiles a symbol
\* allocates, for a symbol that is the name of a rule (the rule being compiled
\* and the rules compiled later included), a NonTerminal whose one child is the
\* id of that rule, and for any other symbol a Terminal of the symbol's bytes.
C12_SymbolResolution ==
    [][\A r \in DOMAIN pc :
          pc[r] = "pass2" =>
             /\ DOMAIN name_to_fragment[r] = DOMAIN grammar[r]
             /\ Len(options'[r]) = Len(options[r]) + 1 =>
                    LET symbol == CurrentAlternatives(r)[Len(expressions[r]) + 1]
                                                        [Len(options[r]) + 1]
                        c == lookup_fragment(fragments'[r], Last(options'[r]))
                    IN  /\ Len(fragments'[r]) = Len(fragments[r]) + 1
                        /\ Last(options'[r]) = Len(fragments[r])
                        /\ IF symbol \in DOMAIN grammar[r]
                           THEN /\ c = NonTerminal(
                                           <<name_to_fragment[r][symbol]>>)
                                /\ lookup_fragment(fragments'[r],
                                       name_to_fragment[r][symbol]).kind =
                                           "NonTerminal"
                           ELSE c = Terminal(AsBytes(symbol))
      ]_vars

\* A symbol has been compiled to a NonTerminal around a rule that the second
\* pass reaches later, while that rule is still its placeholder.
C12_Witness ==
    \E r \in DOMAIN pc :
        /\ pc[r] = "pass2"
        /\ options[r] # <<>>
        /\ \E k \in (idx[r] + 2) .. Len(order[r]) :
               /\ lookup_fragment(fragments[r], Last(options[r])) =
                      NonTerminal(<<name_to_fragment[r][order[r][k]]>>)
               /\ lookup_fragment(fragments[r],
                      name_to_fragment[r][order[r][k]]) = NonTerminal(<<>>)
               /\ grammar[r][order[r][k]] # <<>>

-----------------------------------------------------------------------------
\* Whether the run-length encoded sequence a is a prefix of b.
IsPrefix(a, b) ==
    \/ a = <<>>
    \/ /\ Len(a) <= Len(b)
       /\ Front(a) = SubSeq(b, 1, Len(a) - 1)
       /\ Last(a)[1] = b[Len(a)][1]
       /\ Last(a)[2] <= b[Len(a)][2]

\* C13: a step of a call of generate, from its entry to its return, leaves the
\* fragment arena, the name table and the start id as they are, and what the
\* buffer held before the step is a prefix of what it holds after it; a call
\* changes only the xorshift state, the stack and the buffer.
C13_GenerateFrame ==
    [][\A r \in DOMAIN pc :
          pc[r] \in {"call", "while"} =>
             /\ fragments'[r] = fragments[r]
             /\ name_to_fragment'[r] = name_to_fragment[r]
             /\ start'[r] = start[r]
             /\ grammar'[r] = grammar[r]
             /\ IsPrefix(buf[r], buf'[r])
             /\ RunLen(buf'[r]) >= RunLen(buf[r])
      ]_vars

\* A call has returned after two appends to the buffer and a draw of rand.
C13_Witness ==
    \E r \in DOMAIN pc :
        /\ pc[r] = "returned"
        /\ json = JsonTwice
        /\ buf[r] = AsBytes(Rep("z", 2))
        /\ seed[r] # I32AsUsize(entropy)

-----------------------------------------------------------------------------
\* The rules of a grammar with exactly one alternative, of exactly one symbol
\* that names no rule.
SingleTerminalRules(g) ==
    {name \in DOMAIN g :
        /\ Len(g[name]) = 1
        /\ Len(g[name][1]) = 1
        /\ g[name][1][1] \notin DOMAIN g}

\* C14: every time the fragment of a rule with one alternative of one terminal
\* symbol is popped, whatever the xorshift state, the next pop is its one
\* Expression, the pop after that its one Terminal, and that pop appends
\* exactly the symbol's bytes to the buffer; the two pops before it append
\* nothing.
C14_SingleTerminalRule ==
    [][\A r \in DOMAIN pc :
          (pc[r] = "while" /\ trace'[r] # trace[r]) =>
             \A name \in SingleTerminalRules(grammar[r]) :
                LET id == name_to_fragment[r][name]
                    e == lookup_fragment(fragments[r], id).children[1]
                    t == lookup_fragment(fragments[r], e).children[1]
                    rest == Front(stack[r])
                IN  /\ Cur(r) = id =>
                          (stack'[r] = Append(rest, e) /\ buf'[r] = buf[r])
                    /\ Cur(r) = e =>
                          (stack'[r] = Append(rest, t) /\ buf'[r] = buf[r])
                    /\ Cur(r) = t =>
                          /\ stack'[r] = rest
                          /\ buf'[r] = Cat(buf[r], AsBytes(grammar[r][name][1][1]))
      ]_vars

\* A call on JsonTwice has popped the fragment of "<a>" a second time and
\* appended "z" a second time.
C14_Witness ==
    \E r \in DOMAIN pc :
        /\ json = JsonTwice
        /\ pc[r] = "while"
        /\ stack[r] = <<>>
        /\ Cardinality({k \in DOMAIN trace[r] :
                            trace[r][k] = name_to_fragment[r][RuleA]}) = 2
        /\ RunLen(buf[r]) = 2

-----------------------------------------------------------------------------
\* C15: generate returns only from the empty stack, or from the turn on a
\* Terminal whose bytes carried the buffer from within 1048576 bytes to more
\* than 1048576; a turn on a Terminal that leaves the buffer at 1048576 bytes
\* or fewer stays in the loop; and once generate has returned, the entries
\* left on the stack are not popped and nothing is appended to the buffer.
C15_HaltCondition ==
    [][\A r \in DOMAIN pc :
          /\ (pc[r] = "while" /\ pc'[r] = "returned") =>
                \/ /\ stack[r] = <<>>
                   /\ stack'[r] = <<>>
                   /\ buf'[r] = buf[r]
                \/ /\ Turn(r, "Terminal")
                   /\ RunLen(buf[r]) <= Ceiling
                   /\ RunLen(buf'[r]) > Ceiling
                   /\ buf'[r] = Cat(buf[r],
                                    lookup_fragment(fragments[r], Cur(r)).value)
                   /\ stack'[r] = Front(stack[r])
          /\ (Turn(r, "Terminal") /\ trace'[r] # trace[r]
                 /\ RunLen(buf'[r]) <= Ceiling) => pc'[r] = "while"
          /\ pc[r] = "returned" =>
                /\ stack'[r] = stack[r]
                /\ buf'[r] = buf[r]
                /\ trace'[r] = trace[r]
      ]_vars

\* A call on JsonHuge went on with a buffer of exactly 1048576 bytes and
\* returned on the next terminal, with an entry left on the stack.
C15_Witness ==
    \E r \in DOMAIN pc :
        /\ pc[r] = "returned"
        /\ RunLen(buf[r]) = Ceiling + 524288
        /\ stack[r] # <<>>
        /\ Len(trace[r]) = 11

-----------------------------------------------------------------------------
\* C16: whatever the stack holds when generate is called, the while loop is
\* entered with a stack of exactly the start fragment id, and the first
\* fragment a call pops is the start fragment: what a call that halted on the
\* ceiling left on the stack is not expanded by the next call.
C16_FreshStack ==
    [][\A r \in DOMAIN pc :
          /\ (pc[r] = "call" /\ pc'[r] = "while") =>
                stack'[r] = <<name_to_fragment[r][START]>>
          /\ (pc[r] = "while" /\ trace[r] = <<>> /\ trace'[r] # <<>>) =>
                /\ stack[r] = <<start[r][1]>>
                /\ trace'[r] = <<start[r][1]>>
      ]_vars

\* The call after one that halted on the ceiling with an entry left on the
\* stack has entered the loop.
C16_Witness ==
    \E r \in DOMAIN pc :
        /\ json = JsonHuge
        /\ Len(outputs[r]) = 1
        /\ RunLen(outputs[r][1]) > Ceiling
        /\ pc[r] = "while"
        /\ trace[r] = <<>>
        /\ stack[r] = <<start[r][1]>>

-----------------------------------------------------------------------------
\* C17: a turn that pops a NonTerminal of n children runs rand exactly once
\* and pushes exactly one id, children[v mod n] for the value v rand returned,
\* so that the stack is as deep as before the pop and the same below the top;
\* the buffer is unchanged and the loop goes on.  A turn that pops an
\* Expression or a Terminal leaves the xorshift state as it is.
C17_NonTerminalStep ==
    [][\A r \in DOMAIN pc :
          /\ (Turn(r, "NonTerminal") /\ trace'[r] # trace[r]) =>
                LET children == lookup_fragment(fragments[r], Cur(r)).children
                    n == Len(children)
                    v == rand(seed[r]).ret
                IN  /\ seed'[r] = rand(seed[r]).state
                    /\ buf'[r] = buf[r]
                    /\ Len(stack'[r]) = Len(stack[r])
                    /\ Front(stack'[r]) = Front(stack[r])
                    /\ n > 0
                    /\ Last(stack'[r]) = children[WordMod(v, n) + 1]
                    /\ pc'[r] = "while"
          /\ ((Turn(r, "Expression") \/ Turn(r, "Terminal"))
                 /\ trace'[r] # trace[r]) => seed'[r] = seed[r]
      ]_vars

-----------------------------------------------------------------------------
\* Whether the name table n2f maps its names to distinct ids of the arena frs,
\* each the id of a NonTerminal.
NameTableSound(n2f, frs) ==
    /\ \A a \in DOMAIN n2f :
           /\ n2f[a] \in 0 .. (Len(frs) - 1)
           /\ lookup_fragment(frs, n2f[a]).kind = "NonTerminal"
    /\ \A a, b \in DOMAIN n2f : a # b => n2f[a] # n2f[b]

\* C18: a step of new leaves the arena as it is, or appends one fragment to
\* it and hands out the length before the push as the id, or overwrites in
\* place the placeholder of the rule the second pass is at, leaving every
\* other fragment as it is; the arena never shrinks; and before and after every
\* step the name table maps distinct names to distinct ids of NonTerminals.
C18_ArenaDiscipline ==
    [][\A r \in DOMAIN pc :
          LET old == fragments[r]
              new == fragments'[r]
          IN  /\ NameTableSound(name_to_fragment[r], old)
              /\ NameTableSound(name_to_fragment'[r], new)
              /\ Len(new) >= Len(old)
              /\ pc[r] \in {"pass1", "pass2"} =>
                    \/ new = old
                    \/ /\ Len(new) = Len(old) + 1
                       /\ SubSeq(new, 1, Len(old)) = old
                       /\ \/ /\ pc[r] = "pass1"
                             /\ name_to_fragment'[r][order[r][idx[r] + 1]] =
                                    Len(old)
                             /\ Last(new) = NonTerminal(<<>>)
                          \/ /\ pc[r] = "pass2"
                             /\ options'[r] = Append(options[r], Len(old))
                             /\ Last(new).kind # "Expression"
                          \/ /\ pc[r] = "pass2"
                             /\ expressions'[r] =
                                    Append(expressions[r], Len(old))
                             /\ Last(new) = Expression(options[r])
                    \/ /\ pc[r] = "pass2"
                       /\ Len(new) = Len(old)
                       /\ LET id == name_to_fragment[r][order[r][idx[r] + 1]]
                          IN  /\ \A k \in DOMAIN old :
                                     k # id + 1 => new[k] = old[k]
                              /\ old[id + 1] = NonTerminal(<<>>)
                              /\ new[id + 1] = NonTerminal(expressions[r])
      ]_vars

\* The second pass has overwritten the placeholder of one rule, after
\* fragments allocated behind it, and has another rule still to compile.
C18_Witness ==
    \E r \in DOMAIN pc :
        /\ pc[r] = "pass2"
        /\ idx[r] = 1
        /\ Len(order[r]) >= 2
        /\ name_to_fragment[r][order[r][1]] = 0
        /\ lookup_fragment(fragments[r], 0).children # <<>>
        /\ lookup_fragment(fragments[r], 1) = NonTerminal(<<>>)
        /\ Len(fragments[r]) > Len(order[r])

-----------------------------------------------------------------------------
\* The draws of rand in the call of run r so far: the NonTerminals popped.
Draws(r) ==
    Cardinality({k \in DOMAIN trace[r] :
        lookup_fragment(fragments[r], trace[r][k]).kind = "NonTerminal"})

\* C19: two runs on the same grammar and seed whose HashMaps iterate in any
\* two orders, and whose fragment ids so may differ, produce the same buffers
\* call by call; after the same number of pops of the same call they hold the
\* same buffer and xorshift state, equally deep stacks, and have drawn equally
\* often.
C19_OrderIndependence ==
    (pc[1] \in AfterNew /\ pc[2] \in AfterNew) =>
        /\ \A k \in (DOMAIN outputs[1]) \cap (DOMAIN outputs[2]) :
               outputs[1][k] = outputs[2][k]
        /\ (/\ pc[1] \in InGenerate /\ pc[2] \in InGenerate
            /\ Len(outputs[1]) = Len(outputs[2])
            /\ Len(trace[1]) = Len(trace[2])) =>
               /\ buf[1] = buf[2]
               /\ seed[1] = seed[2]
               /\ Len(stack[1]) = Len(stack[2])
               /\ Draws(1) = Draws(2)

\* Two runs that iterated the rules in different orders and hold different
\* arenas have made the same three calls, whose outputs are not all the same.
C19_Witness ==
    /\ order[1] # order[2]
    /\ fragments[1] # fragments[2]
    /\ start[1] # start[2]
    /\ pc[1] = "returned" /\ pc[2] = "returned"
    /\ Len(outputs[1]) = 2 /\ Len(outputs[2]) = 2
    /\ outputs[1][1] # buf[1]
    /\ Draws(1) >= 2

-----------------------------------------------------------------------------
\* C20: rand on the state 0 returns 0 and stores 0, so that after seed(0) the
\* state is 0 at every point of every call and a NonTerminal that has a child
\* pushes its first; rand on a state that is not 0 (a state a run has reached,
\* or a state of a single bit) does not store 0.
C20_ZeroState ==
    [][\A r \in DOMAIN pc :
          /\ rand({}) = [state |-> {}, ret |-> {}]
          /\ (entropy = 0 /\ pc[r] \in {"loop", "call"} \cup InGenerate) =>
                (seed[r] = {} /\ seed'[r] = {})
          /\ (entropy = 0 /\ Turn(r, "NonTerminal") /\ trace'[r] # trace[r]) =>
                LET children == lookup_fragment(fragments[r], Cur(r)).children
                IN  children # <<>> => Last(stack'[r]) = children[1]
          /\ (pc[r] \in InGenerate /\ seed[r] # {}) =>
                (seed'[r] # {} /\ rand(seed[r]).state # {})
          /\ \A j \in Bits : rand({j}).state # {} /\ rand({j}).ret # {}
      ]_vars

\* After seed(0) three calls on JsonChoice have all returned "x", the first
\* alternative, and the state is still 0.
C20_Witness ==
    \E r \in DOMAIN pc :
        /\ entropy = 0
        /\ json = JsonChoice
        /\ seed[r] = {}
        /\ Len(outputs[r]) = 3
        /\ \A k \in 1 .. 3 : outputs[r][k] = OutX

=============================================================================
